---- MODULE Spec2Model ----
(***************************************************************************)
(* Model of lora-to-csv.py: the MQTTToCSV bridge.  One main thread         *)
(* (__init__, start), the client's network loop delivering connect         *)
(* acknowledgements and messages, and the on_message callback run by a     *)
(* small set of concurrent callback contexts sharing headers_written,      *)
(* remaining_keys, the lock and the two CSV sinks.                         *)
(*                                                                         *)
(* Text is a sequence of tokens; the characters the CSV and JSON writers   *)
(* treat specially (comma, quotes, brackets, blank, line end) are always   *)
(* tokens of their own.                                                    *)
(***************************************************************************)
EXTENDS Integers, Sequences, FiniteSets, TLC

\* ------------------------------------------------------------- bounds
\* Messages the broker delivers in one run.
MaxMsgs == 2
\* I/O errors (a write or flush that raises) the environment injects in one run.
MaxFault == 1
\* Connections lost and re-established by the client's network loop in one run.
MaxReconnect == 1

\* Callback contexts that may run on_message at the same time.
Workers == {1, 2}

\* ------------------------------------------------------ JSON values
\* A decoded JSON value: t is its Python type, s the text of a scalar,
\* items the members of a list or dict (k: the key text of a dict member).
JStr(s) == [t |-> "str", s |-> s, items |-> <<>>]
JNum(s) == [t |-> "num", s |-> s, items |-> <<>>]
JList(items) == [t |-> "list", s |-> <<>>, items |-> items]
JDict(items) == [t |-> "dict", s |-> <<>>, items |-> items]
Item(k, t, s) == [k |-> k, t |-> t, s |-> s]

\* The default of data.get(key, ''): the empty string.
EmptyStr == JStr(<<>>)

\* --------------------------------------------------- text operators
RECURSIVE Join(_, _)
\* sep.join(parts) over token sequences.
Join(parts, sep) ==
    IF Len(parts) = 0 THEN <<>>
    ELSE IF Len(parts) = 1 THEN parts[1]
    ELSE parts[1] \o sep \o Join(Tail(parts), sep)

\* repr() of a scalar member inside a Python list or dict: strings in single quotes.
PyItemRepr(it) == IF it.t = "str" THEN <<"'">> \o it.s \o <<"'">> ELSE it.s

\* str(value) as csv.writer applies it to a cell that is not a string.
PyStr(v) ==
    CASE v.t = "list" ->
           <<"[">> \o Join([i \in 1..Len(v.items) |-> PyItemRepr(v.items[i])], <<",", " ">>) \o <<"]">>
      [] v.t = "dict" ->
           <<"{">> \o Join([i \in 1..Len(v.items) |->
                              <<"'">> \o v.items[i].k \o <<"'", ":", " ">> \o PyItemRepr(v.items[i])],
                           <<",", " ">>) \o <<"}">>
      [] OTHER -> v.s

\* JSON text of a scalar member: strings in double quotes.
JsonItem(it) == IF it.t = "str" THEN <<"\"">> \o it.s \o <<"\"">> ELSE it.s

\* json.dumps(value) with the default separators (', ' and ': ').
json_dumps(v) ==
    CASE v.t = "list" ->
           <<"[">> \o Join([i \in 1..Len(v.items) |-> JsonItem(v.items[i])], <<",", " ">>) \o <<"]">>
      [] v.t = "dict" ->
           <<"{">> \o Join([i \in 1..Len(v.items) |->
                              <<"\"">> \o v.items[i].k \o <<"\"", ":", " ">> \o JsonItem(v.items[i])],
                           <<",", " ">>) \o <<"}">>
      [] v.t = "str" -> <<"\"">> \o v.s \o <<"\"">>
      [] OTHER -> v.s

\* ------------------------------------------------------- csv.writer
\* The characters that make csv.writer (QUOTE_MINIMAL) quote a field.
CsvSpecial == {",", "\"", "\r", "\n", "\r\n"}

NeedsQuote(text) == \E i \in 1..Len(text) : text[i] \in CsvSpecial

RECURSIVE DoubleQuotes(_)
DoubleQuotes(text) ==
    IF Len(text) = 0 THEN <<>>
    ELSE (IF text[1] = "\"" THEN <<"\"", "\"">> ELSE <<text[1]>>) \o DoubleQuotes(Tail(text))

\* One field as csv.writer writes it.
CsvField(text) ==
    IF NeedsQuote(text) THEN <<"\"">> \o DoubleQuotes(text) \o <<"\"">> ELSE text

\* The text of one cell: a str as it is, anything else through str().
CellText(v) == IF v.t = "str" THEN v.s ELSE PyStr(v)

\* writerow(cells): the line written to the stream.
CsvLine(cells) ==
    Join([i \in 1..Len(cells) |-> CsvField(CellText(cells[i]))], <<",">>) \o <<"\r\n">>

\* ------------------------------------------------------ Python dict
\* A dict is the sequence of its (key, value) pairs in insertion order.
HasKey(kv, k) == \E i \in 1..Len(kv) : kv[i].k = k

\* d[k] = v: an existing key keeps its position, a new key goes last.
\* (The function application hands the dict over as a value.)
DictSet(kv, k, v) ==
    [d \in {kv} |->
        IF HasKey(d, k)
        THEN [i \in 1..Len(d) |-> IF d[i].k = k THEN [k |-> k, v |-> v] ELSE d[i]]
        ELSE Append(d, [k |-> k, v |-> v])][kv]

\* d.get(k, default)
DictGet(kv, k, default) ==
    IF HasKey(kv, k) THEN kv[CHOOSE i \in 1..Len(kv) : kv[i].k = k].v ELSE default

\* list(d.keys())
DictKeys(kv) == [i \in 1..Len(kv) |-> kv[i].k]

\* --------------------------------------------------------- messages
\* A payload: whether its bytes are UTF-8, what JSON document the text is
\* ("invalid": none), and for an object its members as written in the text.
Payload(utf8, json, members) == [utf8 |-> utf8, json |-> json, members |-> members]
Member(k, v) == [k |-> k, v |-> v]

\* self.callsign: the positional command line argument.
Callsign == <<"RX1">>

TopicFull(tx) == <<"lora_aprs", "/", "RX1", "/", tx, "/", "json_message">>

\* {"timestamp": "t1", "lat": 1.0, "lon": 2.0}
MsgPlain ==
    [topic |-> TopicFull("TX1"),
     payload |-> Payload(TRUE, "object",
                   <<Member("timestamp", JStr(<<"t1">>)),
                     Member("lat", JNum(<<"1.0">>)),
                     Member("lon", JNum(<<"2.0">>))>>)]

\* {"lat": 3.0, "tx_callsign": "EVIL", "path": ["a", 1], "rx_callsign": "EVIL",
\*  "note": "a,b", "lat": 4.0}: no timestamp, a repeated key, a list, a comma.
MsgOdd ==
    [topic |-> TopicFull("TX2"),
     payload |-> Payload(TRUE, "object",
                   <<Member("lat", JNum(<<"3.0">>)),
                     Member("tx_callsign", JStr(<<"EVIL">>)),
                     Member("path", JList(<<Item(<<>>, "str", <<"a">>), Item(<<>>, "num", <<"1">>)>>)),
                     Member("rx_callsign", JStr(<<"EVIL">>)),
                     Member("note", JStr(<<"a", ",", "b">>)),
                     Member("lat", JNum(<<"4.0">>))>>)]

\* Topic lora_aprs/RX1/TX1 (3 segments); {"timestamp": ["a"], "path": {"k": "v"}}
MsgShort ==
    [topic |-> <<"lora_aprs", "/", "RX1", "/", "TX1">>,
     payload |-> Payload(TRUE, "object",
                   <<Member("timestamp", JList(<<Item(<<>>, "str", <<"a">>)>>)),
                     Member("path", JDict(<<Item(<<"k">>, "str", <<"v">>)>>))>>)]

\* Topic lora_aprs/RX1 (2 segments); text that is no JSON document.
MsgBadJson ==
    [topic |-> <<"lora_aprs", "/", "RX1">>, payload |-> Payload(TRUE, "invalid", <<>>)]

\* Bytes that are not UTF-8.
MsgBadUtf8 == [topic |-> TopicFull("TX1"), payload |-> Payload(FALSE, "invalid", <<>>)]

\* Topic lora_aprs/RX1/TX1 (3 segments); the JSON array [1]: valid JSON, not an object.
MsgArray ==
    [topic |-> <<"lora_aprs", "/", "RX1", "/", "TX1">>,
     payload |-> Payload(TRUE, "array", <<>>)]

Msgs == {MsgPlain, MsgOdd, MsgShort, MsgBadJson, MsgBadUtf8, MsgArray}

NoMsg == [topic |-> <<>>, payload |-> Payload(FALSE, "none", <<>>)]
NoData == [t |-> "none", kv |-> <<>>]

\* --------------------------------------------- on_message, lines 72-88
\* msg.payload.decode('utf-8') succeeds.
Utf8Ok(p) == p.utf8

\* json.loads(payload) succeeds.
JsonOk(p) == p.json # "invalid"

RECURSIVE LoadMembers(_, _)
LoadMembers(members, kv) ==
    IF Len(members) = 0 THEN kv
    ELSE LoadMembers(Tail(members), DictSet(kv, members[1].k, members[1].v))

\* json.loads(payload): an object becomes a dict (a repeated key keeps its first
\* position and its last value), any other document a value that is no dict.
json_loads(p) ==
    IF p.json = "object" THEN [t |-> "dict", kv |-> LoadMembers(p.members, <<>>)]
    ELSE [t |-> p.json, kv |-> <<>>]

RECURSIVE Split(_)
\* msg.topic.split('/')
Split(topic) ==
    IF \E i \in 1..Len(topic) : topic[i] = "/"
    THEN LET i == CHOOSE j \in 1..Len(topic) :
                      topic[j] = "/" /\ \A h \in 1..(j - 1) : topic[h] # "/"
             rest == SubSeq(topic, i + 1, Len(topic))
         IN \* the function application hands the rest over as a value
            <<SubSeq(topic, 1, i - 1)>> \o [t \in {rest} |-> Split(t)][rest]
    ELSE <<topic>>

\* Mutant: the length test is off by one.
TopicOkOffByOne(topic) == Len(Split(topic)) >= 3

\* The topic has the expected shape (line 77).
TopicOk(topic) == Len(Split(topic)) >= 4

\* tx_callsign as extracted from the topic (lines 76-82).
TxCallsign(topic) == IF TopicOk(topic) THEN Split(topic)[3] ELSE <<>>

\* Mutant: the two keys are set only when the payload does not carry them.
InjectKeepExisting(data, topic) ==
    [t |-> "dict",
     kv |-> LET kv1 == IF HasKey(data.kv, "tx_callsign") THEN data.kv
                       ELSE DictSet(data.kv, "tx_callsign", JStr(TxCallsign(topic)))
            IN IF HasKey(kv1, "rx_callsign") THEN kv1
               ELSE DictSet(kv1, "rx_callsign", JStr(Callsign))]

\* data['tx_callsign'] = ...; data['rx_callsign'] = ... (lines 85, 88); only a dict
\* supports the item assignment with a string key.
Inject(data, topic) ==
    [t |-> "dict",
     kv |-> DictSet(DictSet(data.kv, "tx_callsign", JStr(TxCallsign(topic))),
                    "rx_callsign", JStr(Callsign))]

\* -------------------------------------------- on_message, lines 90-121
FixedHeaders == <<"timestamp", "rx_callsign", "tx_callsign">>

InFixed(k) == \E i \in 1..Len(FixedHeaders) : FixedHeaders[i] = k

NotFixed(k) == ~InFixed(k)

\* A variant that takes every key of data, the fixed columns included.
RemainingKeysAll(data) == DictKeys(data.kv)

\* self.remaining_keys = [k for k in data.keys() if k not in headers]
RemainingKeys(data) == SelectSeq(DictKeys(data.kv), NotFixed)

\* headers.extend(self.remaining_keys)
Headers(rk) == FixedHeaders \o rk

\* The header list as the cells handed to writerow.
HeaderCells(rk) == [i \in 1..Len(Headers(rk)) |-> JStr(<<Headers(rk)[i]>>)]

\* The value appended for one remaining key (lines 111-115).
RemainingCell(data, key) ==
    LET value == DictGet(data.kv, key, EmptyStr)
    IN IF value.t \in {"list", "dict"} THEN JStr(json_dumps(value)) ELSE value

\* Mutant: the row follows the keys of its own message, not the stored ones.
BuildRowOwnKeys(data, rk) ==
    <<DictGet(data.kv, "timestamp", EmptyStr),
      DictGet(data.kv, "rx_callsign", EmptyStr),
      DictGet(data.kv, "tx_callsign", EmptyStr)>>
    \o [i \in 1..Len(RemainingKeys(data)) |-> RemainingCell(data, RemainingKeys(data)[i])]

\* row (lines 104-115)
BuildRow(data, rk) ==
    <<DictGet(data.kv, "timestamp", EmptyStr),
      DictGet(data.kv, "rx_callsign", EmptyStr),
      DictGet(data.kv, "tx_callsign", EmptyStr)>>
    \o [i \in 1..Len(rk) |-> RemainingCell(data, rk[i])]

\* Mutant: the header is inferred for every message.
HeaderAlwaysNeeded(hw) == TRUE

\* if not self.headers_written (line 91)
HeaderNeeded(hw) == ~hw

\* ------------------------------------------------------------ state
VARIABLES
    mainpc,           \* position of the main thread (__init__, start)
    exitCode,         \* exit code of the process, -1 while it runs
    conn,             \* driver state: Disconnected, Connecting, Connected, Disconnecting
    net,              \* the network loop thread: none, running, dead, stopped
    subs,             \* client.subscribe calls issued so far
    reconnects,       \* connections lost so far
    fileOpen,         \* self.file_handle is open
    headers_written,  \* self.headers_written
    remaining_keys,   \* self.remaining_keys: [assigned, keys]
    lock,             \* self.lock: 0 when free, else the callback holding it
    pc,               \* position of each on_message invocation
    msg,              \* its msg argument
    data,             \* its local data
    row,              \* its local row
    console,          \* records written to sys.stdout: [rec, text]
    consoleFlushed,   \* how many of them have been flushed
    file,             \* records written to self.file_handle: [rec, text]
    fileFlushed,      \* how many of them have been flushed
    log,              \* diagnostics printed to sys.stderr: how many of each kind
    delivered,        \* the messages delivered so far, in order
    faults            \* I/O errors raised so far

vars == <<mainpc, exitCode, conn, net, subs, reconnects, fileOpen, headers_written,
          remaining_keys, lock, pc, msg, data, row, console, consoleFlushed, file,
          fileFlushed, log, delivered, faults>>

mainVars == <<mainpc, exitCode, fileOpen>>
driverVars == <<conn, net, subs, reconnects>>
schemaVars == <<headers_written, remaining_keys>>
callVars == <<pc, msg, data, row>>
sinkVars == <<console, consoleFlushed, file, fileFlushed>>

\* The kinds of diagnostic the program prints to sys.stderr.
LogKinds == {"open_failed", "connect_error", "connected", "subscribed", "connect_refused",
             "disconnecting", "disconnected", "topic_warning", "json_error", "error"}

\* print(..., file=sys.stderr) of each line of lines.
Logged(l, lines) ==
    [k \in LogKinds |-> l[k] + Cardinality({i \in 1..Len(lines) : lines[i] = k})]

\* One writerow call on a sink: the line written, and whether the call was the
\* one for the header list or the one for a row.
HeaderRecord(rk) == [rec |-> "header", text |-> CsvLine(HeaderCells(rk))]
RowRecord(r) == [rec |-> "row", text |-> CsvLine(r)]

\* Mutant: the critical section is entered without waiting for the lock.
LockIgnored(l) == TRUE

\* with self.lock: the lock can be taken.
LockFree(l) == l = 0

\* The positions of on_message inside "with self.lock".
InLock == {"hdr_out", "hdr_file", "row_out", "row_file", "flush_out", "flush_file"}

\* __init__ up to the try of line 42: headers_written False, the lock free,
\* remaining_keys not yet an attribute.
Init ==
    /\ mainpc = "init"
    /\ exitCode = -1
    /\ conn = "Disconnected"
    /\ net = "none"
    /\ subs = 0
    /\ reconnects = 0
    /\ fileOpen = FALSE
    /\ headers_written = FALSE
    /\ remaining_keys = [assigned |-> FALSE, keys |-> <<>>]
    /\ lock = 0
    /\ pc = [w \in Workers |-> "idle"]
    /\ msg = [w \in Workers |-> NoMsg]
    /\ data = [w \in Workers |-> NoData]
    /\ row = [w \in Workers |-> <<>>]
    /\ console = <<>>
    /\ consoleFlushed = 0
    /\ file = <<>>
    /\ fileFlushed = 0
    /\ log = [k \in LogKinds |-> 0]
    /\ delivered = <<>>
    /\ faults = 0

\* ------------------------------------------------------- main thread
\* __init__, lines 42-58: open(self.output_file, 'w') truncates the file.
OpenFileOk ==
    /\ mainpc = "init"
    /\ fileOpen' = TRUE
    /\ mainpc' = "connect"
    /\ UNCHANGED <<exitCode, driverVars, schemaVars, lock, callVars, sinkVars, log,
                   delivered, faults>>

\* __init__, lines 45-47: the open raises; sys.exit(1).
OpenFileFails ==
    /\ mainpc = "init"
    /\ log' = Logged(log, <<"open_failed">>)
    /\ mainpc' = "exited"
    /\ exitCode' = 1
    /\ UNCHANGED <<fileOpen, driverVars, schemaVars, lock, callVars, sinkVars,
                   delivered, faults>>

\* start, lines 129 and 135: connect returns, loop_start starts the network loop.
ConnectOk ==
    /\ mainpc = "connect"
    /\ conn' = "Connecting"
    /\ net' = "running"
    /\ mainpc' = "loop"
    /\ UNCHANGED <<exitCode, fileOpen, subs, reconnects, schemaVars, lock, callVars,
                   sinkVars, log, delivered, faults>>

\* start, lines 130-132: connect raises; sys.exit(1).
ConnectFails ==
    /\ mainpc = "connect"
    /\ log' = Logged(log, <<"connect_error">>)
    /\ mainpc' = "exited"
    /\ exitCode' = 1
    /\ UNCHANGED <<fileOpen, driverVars, schemaVars, lock, callVars, sinkVars,
                   delivered, faults>>

\* start, lines 140-141: KeyboardInterrupt ends the sleep loop.
Interrupt ==
    /\ mainpc = "loop"
    /\ log' = Logged(log, <<"disconnecting">>)
    /\ mainpc' = "disconnect"
    /\ UNCHANGED <<exitCode, fileOpen, driverVars, schemaVars, lock, callVars,
                   sinkVars, delivered, faults>>

\* start, line 142: client.disconnect() asks the network loop to send the
\* DISCONNECT packet; the loop goes on until loop_stop ends it.
Disconnect ==
    /\ mainpc = "disconnect"
    /\ conn' = "Disconnecting"
    /\ mainpc' = "loop_stop"
    /\ UNCHANGED <<exitCode, fileOpen, net, subs, reconnects, schemaVars, lock,
                   callVars, sinkVars, log, delivered, faults>>

\* start, lines 143-144: client.loop_stop() joins the network loop, which ends
\* once the callbacks it is running have returned.
LoopStop ==
    /\ mainpc = "loop_stop"
    /\ \A w \in Workers : pc[w] = "idle"
    /\ net' = "stopped"
    /\ conn' = "Disconnected"
    /\ log' = Logged(log, <<"disconnected">>)
    /\ mainpc' = "close"
    /\ UNCHANGED <<exitCode, fileOpen, subs, reconnects, schemaVars, lock, callVars,
                   sinkVars, delivered, faults>>

\* start, line 145: self.file_handle.close() flushes what is buffered; start and
\* main return and the process ends with exit code 0.
CloseFile ==
    /\ mainpc = "close"
    /\ fileOpen' = FALSE
    /\ fileFlushed' = Len(file)
    /\ mainpc' = "done"
    /\ exitCode' = 0
    /\ UNCHANGED <<driverVars, schemaVars, lock, callVars, console, consoleFlushed,
                   file, log, delivered, faults>>

\* ------------------------------------------------------ network loop
\* A variant of on_connect that starts the header anew on every acknowledgement.
OnConnectOkResets ==
    /\ net = "running"
    /\ conn = "Connecting"
    /\ conn' = "Connected"
    /\ subs' = subs + 1
    /\ headers_written' = FALSE
    /\ log' = Logged(log, <<"connected", "subscribed">>)
    /\ UNCHANGED <<mainVars, net, reconnects, remaining_keys, lock, callVars, sinkVars,
                   delivered, faults>>

\* on_connect with rc == 0 (lines 61-65).
OnConnectOk ==
    /\ net = "running"
    /\ conn = "Connecting"
    /\ conn' = "Connected"
    /\ subs' = subs + 1
    /\ log' = Logged(log, <<"connected", "subscribed">>)
    /\ UNCHANGED <<mainVars, net, reconnects, schemaVars, lock, callVars, sinkVars,
                   delivered, faults>>

\* A variant of on_connect whose subscribe is not under the test of rc.
OnConnectRefusedSubscribes ==
    /\ net = "running"
    /\ conn = "Connecting"
    /\ subs' = subs + 1
    /\ log' = Logged(log, <<"connect_refused">>)
    /\ net' = "dead"
    /\ conn' = "Disconnected"
    /\ UNCHANGED <<mainVars, reconnects, schemaVars, lock, callVars, sinkVars,
                   delivered, faults>>

\* on_connect with rc != 0 (lines 66-68): sys.exit(1) raises SystemExit on the
\* network loop thread, which ends that thread and nothing else.
OnConnectRefused ==
    /\ net = "running"
    /\ conn = "Connecting"
    /\ log' = Logged(log, <<"connect_refused">>)
    /\ net' = "dead"
    /\ conn' = "Disconnected"
    /\ UNCHANGED <<mainVars, subs, reconnects, schemaVars, lock, callVars, sinkVars,
                   delivered, faults>>

\* The connection is lost and the client's loop reconnects: a further connect
\* acknowledgement follows.
ConnectionLost ==
    /\ net = "running"
    /\ conn = "Connected"
    /\ reconnects < MaxReconnect
    /\ reconnects' = reconnects + 1
    /\ conn' = "Connecting"
    /\ UNCHANGED <<mainVars, net, subs, schemaVars, lock, callVars, sinkVars, log,
                   delivered, faults>>

\* The subscription delivers messages: the network loop is running on an
\* acknowledged connection, also one whose disconnect has been requested but
\* whose loop has not been stopped yet (on_message tests no state of its own).
\* subs counts the acknowledgements and reconnects the losses, so that the
\* latest acknowledged connection still stands when subs = reconnects + 1.
Subscribed ==
    /\ net = "running"
    /\ conn \in {"Connected", "Disconnecting"}
    /\ subs = reconnects + 1

\* The client calls on_message(client, userdata, m) in a free callback context
\* (the contexts are interchangeable: the first free one is taken).
Deliver(w, m) ==
    /\ Subscribed
    /\ Len(delivered) < MaxMsgs
    /\ pc[w] = "idle"
    /\ \A v \in Workers : v < w => pc[v] # "idle"
    /\ delivered' = Append(delivered, m)
    /\ pc' = [pc EXCEPT ![w] = "recv"]
    /\ msg' = [msg EXCEPT ![w] = m]
    /\ UNCHANGED <<mainVars, driverVars, schemaVars, lock, data, row, sinkVars, log,
                   faults>>

\* -------------------------------------------------------- on_message
\* The invocation returns: its locals are gone.
Return(w) ==
    /\ pc' = [pc EXCEPT ![w] = "idle"]
    /\ msg' = [msg EXCEPT ![w] = NoMsg]
    /\ data' = [data EXCEPT ![w] = NoData]
    /\ row' = [row EXCEPT ![w] = <<>>]

\* Mutant: the topic is examined before the payload is parsed.
PrepareLogTopicFirst(m) ==
    IF ~Utf8Ok(m.payload) THEN <<"error">>
    ELSE (IF TopicOk(m.topic) THEN <<>> ELSE <<"topic_warning">>)
         \o (IF ~JsonOk(m.payload) THEN <<"json_error">>
             ELSE IF json_loads(m.payload).t = "dict" THEN <<>> ELSE <<"error">>)

\* What lines 72-88 print to stderr for message m.
PrepareLog(m) ==
    IF ~Utf8Ok(m.payload) THEN <<"error">>
    ELSE IF ~JsonOk(m.payload) THEN <<"json_error">>
    ELSE (IF TopicOk(m.topic) THEN <<>> ELSE <<"topic_warning">>)
         \o (IF json_loads(m.payload).t = "dict" THEN <<>> ELSE <<"error">>)

\* Lines 72-88 raise for message m: the decode (UnicodeDecodeError), json.loads
\* (JSONDecodeError) or the item assignment on a value that is no dict (TypeError).
PrepareRaises(m) ==
    \/ ~Utf8Ok(m.payload)
    \/ ~JsonOk(m.payload)
    \/ json_loads(m.payload).t # "dict"

\* Lines 72-88: decode, parse, topic, the two injected keys; an exception is
\* caught by lines 122-125 and the invocation returns.
Prepare(w) ==
    /\ pc[w] = "recv"
    /\ log' = Logged(log, PrepareLog(msg[w]))
    /\ IF PrepareRaises(msg[w])
       THEN Return(w)
       ELSE /\ data' = [data EXCEPT ![w] = Inject(json_loads(msg[w].payload), msg[w].topic)]
            /\ pc' = [pc EXCEPT ![w] = "lock"]
            /\ UNCHANGED <<msg, row>>
    /\ UNCHANGED <<mainVars, driverVars, schemaVars, lock, sinkVars, delivered, faults>>

\* A variant in which headers_written is set where remaining_keys is assigned,
\* ahead of the two header writes.
AcquireSetsWritten(w) ==
    /\ pc[w] = "lock"
    /\ LockFree(lock)
    /\ lock' = w
    /\ IF HeaderNeeded(headers_written)
       THEN /\ remaining_keys' = [assigned |-> TRUE, keys |-> RemainingKeys(data[w])]
            /\ headers_written' = TRUE
            /\ pc' = [pc EXCEPT ![w] = "hdr_out"]
            /\ row' = row
       ELSE /\ remaining_keys' = remaining_keys
            /\ headers_written' = headers_written
            /\ row' = [row EXCEPT ![w] = BuildRow(data[w], remaining_keys.keys)]
            /\ pc' = [pc EXCEPT ![w] = "row_out"]
    /\ UNCHANGED <<mainVars, driverVars, msg, data, sinkVars, log, delivered, faults>>

\* Lines 90-96: the lock is taken; without a header yet, remaining_keys is
\* assigned from this message, otherwise the row is built (lines 104-115).
Acquire(w) ==
    /\ pc[w] = "lock"
    /\ LockFree(lock)
    /\ lock' = w
    /\ IF HeaderNeeded(headers_written)
       THEN /\ remaining_keys' = [assigned |-> TRUE, keys |-> RemainingKeys(data[w])]
            /\ pc' = [pc EXCEPT ![w] = "hdr_out"]
            /\ row' = row
       ELSE /\ remaining_keys' = remaining_keys
            /\ row' = [row EXCEPT ![w] = BuildRow(data[w], remaining_keys.keys)]
            /\ pc' = [pc EXCEPT ![w] = "row_out"]
    /\ UNCHANGED <<mainVars, driverVars, headers_written, msg, data, sinkVars, log,
                   delivered, faults>>

\* Line 99: self.csv_stdout_writer.writerow(headers)
WriteHeaderStdout(w) ==
    /\ pc[w] = "hdr_out"
    /\ console' = Append(console, HeaderRecord(remaining_keys.keys))
    /\ pc' = [pc EXCEPT ![w] = "hdr_file"]
    /\ UNCHANGED <<mainVars, driverVars, schemaVars, lock, msg, data, row,
                   consoleFlushed, file, fileFlushed, log, delivered, faults>>

\* Lines 100-115: self.csv_file_writer.writerow(headers), headers_written = True,
\* then the row is built.
WriteHeaderFile(w) ==
    /\ pc[w] = "hdr_file"
    /\ file' = Append(file, HeaderRecord(remaining_keys.keys))
    /\ headers_written' = TRUE
    /\ row' = [row EXCEPT ![w] = BuildRow(data[w], remaining_keys.keys)]
    /\ pc' = [pc EXCEPT ![w] = "row_out"]
    /\ UNCHANGED <<mainVars, driverVars, remaining_keys, lock, msg, data, console,
                   consoleFlushed, fileFlushed, log, delivered, faults>>

\* Line 118: self.csv_stdout_writer.writerow(row)
WriteRowStdout(w) ==
    /\ pc[w] = "row_out"
    /\ console' = Append(console, RowRecord(row[w]))
    /\ pc' = [pc EXCEPT ![w] = "row_file"]
    /\ UNCHANGED <<mainVars, driverVars, schemaVars, lock, msg, data, row,
                   consoleFlushed, file, fileFlushed, log, delivered, faults>>

\* Mutant: the row goes to the console only.
WriteRowFileSkipped(w) ==
    /\ pc[w] = "row_file"
    /\ pc' = [pc EXCEPT ![w] = "flush_out"]
    /\ UNCHANGED <<mainVars, driverVars, schemaVars, lock, msg, data, row, sinkVars,
                   log, delivered, faults>>

\* Line 119: self.csv_file_writer.writerow(row)
WriteRowFile(w) ==
    /\ pc[w] = "row_file"
    /\ file' = Append(file, RowRecord(row[w]))
    /\ pc' = [pc EXCEPT ![w] = "flush_out"]
    /\ UNCHANGED <<mainVars, driverVars, schemaVars, lock, msg, data, row, console,
                   consoleFlushed, fileFlushed, log, delivered, faults>>

\* Line 120: sys.stdout.flush()
FlushStdout(w) ==
    /\ pc[w] = "flush_out"
    /\ consoleFlushed' = Len(console)
    /\ pc' = [pc EXCEPT ![w] = "flush_file"]
    /\ UNCHANGED <<mainVars, driverVars, schemaVars, lock, msg, data, row, console,
                   file, fileFlushed, log, delivered, faults>>

\* A variant of the end of the with block without line 121: the file is left
\* to flush when its buffer fills.
FlushFileSkipped(w) ==
    /\ pc[w] = "flush_file"
    /\ lock' = 0
    /\ Return(w)
    /\ UNCHANGED <<mainVars, driverVars, schemaVars, sinkVars, log, delivered, faults>>

\* Line 121 and the end of the with block: self.file_handle.flush(), the lock is
\* released and on_message returns.
FlushFile(w) ==
    /\ pc[w] = "flush_file"
    /\ fileFlushed' = Len(file)
    /\ lock' = 0
    /\ Return(w)
    /\ UNCHANGED <<mainVars, driverVars, schemaVars, console, consoleFlushed, file,
                   log, delivered, faults>>

\* A variant with acquire and release around the block in place of the with
\* statement: an exception leaves the lock taken.
IOErrorKeepsLock(w) ==
    /\ pc[w] \in InLock
    /\ faults < MaxFault
    /\ faults' = faults + 1
    /\ log' = Logged(log, <<"error">>)
    /\ Return(w)
    /\ UNCHANGED <<mainVars, driverVars, schemaVars, lock, sinkVars, delivered>>

\* The write or flush the invocation is about to make raises (OSError and the
\* like): it writes nothing, the with block releases the lock, and lines 124-125
\* print the error; on_message returns.
IOError(w) ==
    /\ pc[w] \in InLock
    /\ faults < MaxFault
    /\ faults' = faults + 1
    /\ lock' = 0
    /\ log' = Logged(log, <<"error">>)
    /\ Return(w)
    /\ UNCHANGED <<mainVars, driverVars, schemaVars, sinkVars, delivered>>

\* ---------------------------------------------------- specifications
\* The steps of the program when no write or flush raises.
NextNoFault ==
    \/ OpenFileOk
    \/ OpenFileFails
    \/ ConnectOk
    \/ ConnectFails
    \/ Interrupt
    \/ Disconnect
    \/ LoopStop
    \/ CloseFile
    \/ OnConnectOk
    \/ OnConnectRefused
    \/ ConnectionLost
    \/ \E w \in Workers, m \in Msgs : Deliver(w, m)
    \/ \E w \in Workers : Prepare(w)
    \/ \E w \in Workers : Acquire(w)
    \/ \E w \in Workers : WriteHeaderStdout(w)
    \/ \E w \in Workers : WriteHeaderFile(w)
    \/ \E w \in Workers : WriteRowStdout(w)
    \/ \E w \in Workers : WriteRowFile(w)
    \/ \E w \in Workers : FlushStdout(w)
    \/ \E w \in Workers : FlushFile(w)

Next ==
    \/ NextNoFault
    \/ \E w \in Workers : IOError(w)

\* Every behaviour of the program, I/O errors included.
Spec == Init /\ [][Next]_vars

\* The behaviours in which every write and flush succeeds.
SpecNoFault == Init /\ [][NextNoFault]_vars

\* A statement of the main thread that waits for nothing outside the program:
\* all of start but the sleep of lines 137-139, which only an interrupt ends.
MainStep ==
    \/ OpenFileOk
    \/ OpenFileFails
    \/ ConnectOk
    \/ ConnectFails
    \/ Disconnect
    \/ LoopStop
    \/ CloseFile

\* A statement of invocation w other than taking the lock; whether a write or
\* a flush succeeds or raises is not the scheduler's choice.
CallbackStep(w) ==
    \/ Prepare(w)
    \/ WriteHeaderStdout(w)
    \/ WriteHeaderFile(w)
    \/ WriteRowStdout(w)
    \/ WriteRowFile(w)
    \/ FlushStdout(w)
    \/ FlushFile(w)
    \/ IOError(w)

\* The behaviours under fair scheduling: a thread that can run a statement
\* runs it, and a thread waiting at line 90 gets the lock if it is free again
\* and again. What the broker, the network and the user do is not scheduled.
FairSpec ==
    /\ Spec
    /\ WF_vars(MainStep)
    /\ \A w \in Workers : WF_vars(CallbackStep(w)) /\ SF_vars(Acquire(w))

\* ------------------------------------------- vocabulary of the claims
Last(q) == q[Len(q)]

\* The invocation has built its row (lines 104-115).
RowBuilt(w) == pc[w] \in {"row_out", "row_file", "flush_out", "flush_file"}

AllIdle == \A w \in Workers : pc[w] = "idle"

\* How many records of one kind a sink holds.
CountRec(sink, kind) == Cardinality({i \in 1..Len(sink) : sink[i].rec = kind})

\* The number of '/'-separated segments of a topic.
SegCount(topic) == 1 + Cardinality({i \in 1..Len(topic) : topic[i] = "/"})

\* The message is UTF-8 text holding a JSON object.
IsObject(m) == m.payload.utf8 /\ m.payload.json = "object"

\* The message is UTF-8 text holding some JSON document.
IsJson(m) == m.payload.utf8 /\ m.payload.json \notin {"invalid", "none"}

NumObjects(q) == Cardinality({i \in 1..Len(q) : IsObject(q[i])})

\* The value the payload text gives key k (the last member of that name), or ''.
PayloadValue(p, k) ==
    LET idx == {i \in 1..Len(p.members) : p.members[i].k = k}
    IN IF idx = {} THEN EmptyStr
       ELSE p.members[CHOOSE i \in idx : \A j \in idx : j <= i].v

\* The keys of the payload text in order of first appearance, the three fixed
\* columns left out.
PayloadKeys(p) ==
    LET first == {i \in 1..Len(p.members) :
                    /\ \A j \in 1..(i - 1) : p.members[j].k # p.members[i].k
                    /\ p.members[i].k \notin {"timestamp", "rx_callsign", "tx_callsign"}}
        nth(n) == CHOOSE i \in first : Cardinality({j \in first : j < i}) = n - 1
    IN [n \in 1..Cardinality(first) |-> p.members[nth(n)].k]

\* --------------------------------------------------------------- C1
\* C1: once the header schema is established (headers_written is set), it never
\* changes: headers_written stays set and remaining_keys keeps its value in every
\* later step, whatever keys later messages carry, and the header record in the
\* file is the one of the stored column list.
C1_SchemaFrozen ==
    /\ [](headers_written =>
            /\ remaining_keys.assigned
            /\ \E i \in 1..Len(file) : file[i] = HeaderRecord(remaining_keys.keys))
    /\ [][headers_written => (headers_written' /\ remaining_keys' = remaining_keys)]_vars

\* A later message with other keys than the stored ones is past the header test.
C1_Witness ==
    /\ headers_written
    /\ \E w \in Workers : RowBuilt(w) /\ PayloadKeys(msg[w].payload) # remaining_keys.keys

\* --------------------------------------------------------------- C2
\* C2: when no write fails, under every interleaving of the callbacks each sink
\* holds a header record in first place and nowhere else, and once every callback
\* of a run with at least one JSON-object message has returned, each sink holds
\* exactly one header record.
C2_HeaderOnce ==
    /\ \A i \in 1..Len(console) : (console[i].rec = "header") <=> (i = 1)
    /\ \A i \in 1..Len(file) : (file[i].rec = "header") <=> (i = 1)
    /\ (AllIdle /\ NumObjects(delivered) >= 1) =>
         (CountRec(console, "header") = 1 /\ CountRec(file, "header") = 1)

\* Two callbacks race for the first header: one writes it while the other waits.
C2_Witness ==
    \E w1, w2 \in Workers : w1 # w2 /\ pc[w1] = "lock" /\ pc[w2] = "hdr_file"

\* --------------------------------------------------------------- C3
\* C3: when no write fails, whenever the lock is free the console and the file
\* hold the same records in the same order; while a callback holds the lock the
\* console is at most the one record ahead that this callback is about to write
\* to the file.
C3_SinksIdentical ==
    /\ lock = 0 => console = file
    /\ lock # 0 =>
         \/ console = file
         \/ /\ pc[lock] \in {"hdr_file", "row_file"}
            /\ Len(console) = Len(file) + 1
            /\ SubSeq(console, 1, Len(file)) = file

\* One message is written, the lock is free and another callback is about to enter.
C3_Witness ==
    /\ lock = 0
    /\ Len(console) = 2
    /\ \E w \in Workers : pc[w] = "lock"

\* --------------------------------------------------------------- C4
\* C4: also when a write or flush raises, whenever the lock is free the console
\* and the file hold the same records, and each holds at most one header record.
C4_NeverDiverge ==
    /\ lock = 0 => console = file
    /\ CountRec(console, "header") <= 1
    /\ CountRec(file, "header") <= 1

\* --------------------------------------------------------------- C5
\* C5: when no write fails, the row of a JSON-object message whose topic has at
\* least 4 segments starts with the payload's timestamp value ('' if absent), the
\* command line callsign and topic segment 2, also when the payload carries
\* tx_callsign or rx_callsign itself; that row is what is written to both sinks.
C5_FixedCells ==
    \A w \in Workers :
        (RowBuilt(w) /\ SegCount(msg[w].topic) >= 4) =>
            /\ row[w][1] = PayloadValue(msg[w].payload, "timestamp")
            /\ row[w][2] = JStr(Callsign)
            /\ row[w][3] = JStr(Split(msg[w].topic)[3])
            /\ pc[w] \in {"row_file", "flush_out", "flush_file"} =>
                 Last(console) = RowRecord(row[w])
            /\ pc[w] \in {"flush_out", "flush_file"} => Last(file) = RowRecord(row[w])

\* The row of a message whose payload carries tx_callsign and rx_callsign is in
\* both sinks.
C5_Witness ==
    \E w \in Workers :
        /\ pc[w] = "flush_file"
        /\ PayloadValue(msg[w].payload, "tx_callsign") # EmptyStr
        /\ PayloadValue(msg[w].payload, "rx_callsign") # EmptyStr

\* --------------------------------------------------------------- C6
\* The cell of column k for message m: the message's value (as JSON text when
\* it is a list or dict), '' when the message has no such key.
C6_CellOk(m, k, cell) ==
    LET v == IF k = "rx_callsign" THEN JStr(Callsign)
             ELSE IF k = "tx_callsign" THEN JStr(TxCallsign(m.topic))
             ELSE PayloadValue(m.payload, k)
    IN \/ cell = v
       \/ v.t \in {"list", "dict"} /\ cell = JStr(json_dumps(v))

\* C6: when no write fails, every row has exactly one cell per column of the
\* header record at the top of the file, which is the stored schema; cell i is
\* the message's value for column i, '' when the message lacks the key; keys of
\* the message that are no column add no cell.
C6_RowAligned ==
    \A w \in Workers :
        RowBuilt(w) =>
            LET cols == <<"timestamp", "rx_callsign", "tx_callsign">> \o remaining_keys.keys
            IN /\ Len(file) >= 1
               /\ file[1] = [rec |-> "header",
                             text |-> CsvLine([i \in 1..Len(cols) |-> JStr(<<cols[i]>>)])]
               /\ Len(row[w]) = Len(cols)
               /\ \A i \in 1..Len(cols) : C6_CellOk(msg[w], cols[i], row[w][i])

\* A row is built for a message that lacks a column and carries a key that is
\* no column.
C6_Witness ==
    \E w \in Workers :
        /\ RowBuilt(w)
        /\ \E i \in 1..Len(remaining_keys.keys) :
               \A j \in 1..Len(msg[w].payload.members) :
                   msg[w].payload.members[j].k # remaining_keys.keys[i]
        /\ \E j \in 1..Len(msg[w].payload.members) :
               /\ msg[w].payload.members[j].k \notin {"timestamp", "rx_callsign", "tx_callsign"}
               /\ \A i \in 1..Len(remaining_keys.keys) :
                      msg[w].payload.members[j].k # remaining_keys.keys[i]

\* --------------------------------------------------------------- C7
\* C7: in every row, every column (the timestamp column included) whose value in
\* the message is a list or dict is written as that value's JSON text.
C7_CollectionsAsJson ==
    \A w \in Workers :
        RowBuilt(w) =>
            LET cols == <<"timestamp", "rx_callsign", "tx_callsign">> \o remaining_keys.keys
            IN \A i \in 1..Len(row[w]) :
                   LET v == PayloadValue(msg[w].payload, cols[i])
                   IN (cols[i] \notin {"rx_callsign", "tx_callsign"} /\ v.t \in {"list", "dict"}) =>
                          CellText(row[w][i]) = json_dumps(v)

\* --------------------------------------------------------------- C8
\* The step in which an invocation handles a payload that is UTF-8 text but no
\* JSON: it writes no record, leaves the header state, the lock and the process
\* alone, prints exactly one JSON error and returns.
C8_BadJsonStep ==
    \A w \in Workers :
        (/\ pc[w] = "recv"
         /\ pc'[w] # "recv"
         /\ msg[w].payload.utf8
         /\ msg[w].payload.json = "invalid") =>
            /\ pc'[w] = "idle"
            /\ console' = console /\ file' = file
            /\ headers_written' = headers_written
            /\ remaining_keys' = remaining_keys
            /\ log' = [log EXCEPT !["json_error"] = @ + 1]
            /\ lock' = lock
            /\ mainpc' = mainpc /\ exitCode' = exitCode
            /\ net' = net /\ conn' = conn

\* Once every callback has returned: one JSON error per invalid payload; while no
\* message that counts as parsing was delivered the schema is unestablished and
\* the sinks are empty; otherwise the schema is the one inferred from such a
\* message.
C8_Outcome(Parses(_)) ==
    AllIdle =>
        LET parsing == {i \in 1..Len(delivered) : Parses(delivered[i])}
        IN /\ log["json_error"] =
                Cardinality({i \in 1..Len(delivered) :
                               delivered[i].payload.utf8 /\ delivered[i].payload.json = "invalid"})
           /\ parsing = {} => (~headers_written /\ console = <<>> /\ file = <<>>)
           /\ parsing # {} =>
                /\ headers_written
                /\ \E i \in parsing : remaining_keys.keys = PayloadKeys(delivered[i].payload)

\* C8 as stated: the schema is inferred from the next message that parses as JSON.
C8_Original == [](C8_Outcome(IsJson)) /\ [][C8_BadJsonStep]_vars

\* C8 amended: when no write fails, an invalid JSON payload yields no record and
\* exactly one logged error, does not end the process and leaves the header
\* state unchanged; the schema stays unestablished until a message whose payload
\* is a JSON object arrives and is then inferred from such a message.
C8_BadJsonDropped == [](C8_Outcome(IsObject)) /\ [][C8_BadJsonStep]_vars

\* The first message of the run was invalid JSON, the second a JSON object, and
\* the header is established.
C8_Witness ==
    /\ AllIdle
    /\ Len(delivered) = 2
    /\ delivered[1].payload.utf8 /\ delivered[1].payload.json = "invalid"
    /\ IsObject(delivered[2])
    /\ headers_written
    /\ remaining_keys.keys = PayloadKeys(delivered[2].payload)

\* --------------------------------------------------------------- C9
\* C9: when no write fails, a JSON-object message whose topic has fewer than 4
\* segments gets a row with an empty tx_callsign cell; once every callback has
\* returned each sink holds exactly one row per JSON-object message delivered,
\* short topics included, and one warning is logged per parsed message with a
\* short topic.
C9_ShortTopicRow ==
    /\ \A w \in Workers :
           (RowBuilt(w) /\ SegCount(msg[w].topic) < 4) => row[w][3] = EmptyStr
    /\ \A w \in Workers :
           (pc[w] \in {"lock"} \cup InLock) => IsObject(msg[w])
    /\ AllIdle =>
           /\ CountRec(console, "row") = NumObjects(delivered)
           /\ CountRec(file, "row") = NumObjects(delivered)
           /\ log["topic_warning"] =
                Cardinality({i \in 1..Len(delivered) :
                               IsJson(delivered[i]) /\ SegCount(delivered[i].topic) < 4})

\* The only message of the run so far has a short topic: it established the
\* header and its row is in both sinks.
C9_Witness ==
    /\ AllIdle
    /\ Len(delivered) = 1
    /\ IsObject(delivered[1]) /\ SegCount(delivered[1].topic) < 4
    /\ headers_written
    /\ CountRec(console, "row") = 1 /\ CountRec(file, "row") = 1
    /\ log["topic_warning"] = 1

\* -------------------------------------------------------------- C10
\* C10: every failing message (not UTF-8, invalid JSON, JSON that is no object,
\* an error raised inside the critical section) yields no row and every other
\* message yields its row: once every callback has returned, each sink holds one
\* row per JSON-object message delivered less those whose write or flush raised;
\* the return of an invocation leaves the driver and the process as they are.
C10_Contained ==
    /\ [](AllIdle =>
            /\ CountRec(console, "row") = NumObjects(delivered) - faults
            /\ CountRec(file, "row") = NumObjects(delivered) - faults)
    /\ [][\A w \in Workers :
            (pc[w] # "idle" /\ pc'[w] = "idle") =>
                UNCHANGED <<mainpc, exitCode, net, conn, subs>>]_vars

\* -------------------------------------------------------------- C11
\* C11: a failure to connect is fatal on either path: once client.connect has
\* raised or on_connect has received rc != 0, the process eventually ends with
\* exit code 1, and from then on nothing is subscribed and no message is
\* handed to on_message.
C11_Failed == log["connect_error"] > 0 \/ log["connect_refused"] > 0

C11_Fatal ==
    /\ C11_Failed ~> (exitCode = 1)
    /\ [][C11_Failed => (subs' = subs /\ delivered' = delivered)]_vars

\* -------------------------------------------------------------- C12
\* C12: after an interrupt the driver disconnects, stops the network loop and
\* closes the file in that order: the file is closed only once the loop has
\* stopped, every invocation has returned and the lock is free; once
\* disconnect has been requested no further message is handed to on_message;
\* and the file takes no record after it has been closed.
C12_DisconnectRequested == mainpc \in {"loop_stop", "close", "done"}

C12_OrderlyShutdown ==
    /\ [](mainpc = "loop_stop" => conn = "Disconnecting")
    /\ [](mainpc \in {"close", "done"} =>
            /\ net = "stopped" /\ conn = "Disconnected"
            /\ AllIdle /\ lock = 0)
    /\ [](mainpc = "done" => ~fileOpen)
    /\ [][C12_DisconnectRequested => delivered' = delivered]_vars
    /\ [][~fileOpen => file' = file]_vars

\* -------------------------------------------------------------- C13
\* The transitions of the lifecycle that the claim names.
C13_Named ==
    { <<"Disconnected", "Connecting">>, <<"Connecting", "Connected">>,
      <<"Connected", "Disconnecting">>, <<"Disconnecting", "Disconnected">> }

\* The transitions it leaves out: the broker refuses the connection, the
\* client reconnects after a loss, the interrupt arrives while the driver is
\* connecting or after the connection was refused.
C13_Further ==
    { <<"Connecting", "Disconnected">>, <<"Connected", "Connecting">>,
      <<"Connecting", "Disconnecting">>, <<"Disconnected", "Disconnecting">> }

\* A step of the lifecycle takes a transition of T only.
C13_Takes(T) == conn' # conn => <<conn, conn'>> \in T

\* A subscription is issued only by the step that acknowledges a connection
\* with rc 0, and Disconnecting is entered only by the main thread handling an
\* interrupt.
C13_Step ==
    /\ subs' # subs =>
          /\ subs' = subs + 1
          /\ conn = "Connecting" /\ conn' = "Connected"
          /\ log'["connected"] = log["connected"] + 1
    /\ (conn' = "Disconnecting" /\ conn # "Disconnecting") =>
          mainpc = "disconnect" /\ log["disconnecting"] > 0

\* No message is handed to on_message, and no record written, before the
\* first subscription.
C13_NothingBeforeSubscribe ==
    subs = 0 => delivered = <<>> /\ AllIdle /\ console = <<>> /\ file = <<>>

\* C13 as stated: the lifecycle only takes the transitions Disconnected ->
\* Connecting -> Connected/Subscribed -> Disconnecting -> Disconnected, the
\* subscription follows an acknowledgement with rc 0, no message is transcoded
\* before it, and only an interrupt leads to Disconnecting.
C13_Original ==
    /\ []C13_NothingBeforeSubscribe
    /\ [][C13_Takes(C13_Named) /\ C13_Step]_vars

\* C13, amended: the same with the lifecycle also taking Connecting ->
\* Disconnected (refused), Connected -> Connecting (reconnect) and the
\* interrupt leading to Disconnecting from Connecting and Disconnected too.
C13_LifecycleComplete ==
    /\ []C13_NothingBeforeSubscribe
    /\ [][C13_Takes(C13_Named \cup C13_Further) /\ C13_Step]_vars

\* The whole lifecycle has been run: connected, subscribed, a row written, an
\* interrupt, the loop stopped and the driver back in Disconnected.
C13_Witness ==
    /\ mainpc = "done"
    /\ conn = "Disconnected"
    /\ subs >= 1
    /\ log["disconnecting"] = 1
    /\ CountRec(file, "row") >= 1

\* -------------------------------------------------------------- C14
\* The process has ended.
C14_Ended == mainpc \in {"exited", "done"}

\* C14: a process that could not open the output file has ended with a
\* non-zero exit code without any attempt to connect; one whose connect raised
\* has ended with a non-zero exit code; one whose connection the broker refused
\* never ends with exit code 0; and one that ends after an interrupt with no
\* such failure ends with exit code 0.
C14_ExitCodes ==
    /\ C14_Ended <=> exitCode # -1
    /\ log["open_failed"] > 0 =>
          /\ C14_Ended /\ exitCode > 0
          /\ net = "none" /\ conn = "Disconnected" /\ subs = 0
    /\ log["connect_error"] > 0 => C14_Ended /\ exitCode > 0
    /\ (log["connect_refused"] > 0 /\ C14_Ended) => exitCode > 0
    /\ (mainpc = "done" /\ ~C11_Failed) => exitCode = 0

\* -------------------------------------------------------------- C15
\* The header line the claim gives a payload: timestamp, rx_callsign,
\* tx_callsign, then the other keys of the payload text in their order.
C15_Columns(p) == <<"timestamp", "rx_callsign", "tx_callsign">> \o PayloadKeys(p)

C15_Line(cols) ==
    [rec |-> "header",
     text |-> Join([i \in 1..Len(cols) |-> <<cols[i]>>], <<",">>) \o <<"\r\n">>]

C15_NoDuplicate(cols) ==
    \A i, j \in 1..Len(cols) : cols[i] = cols[j] => i = j

\* C15: the header written by the first invocation to enter the critical
\* section is timestamp, rx_callsign, tx_callsign followed by the other keys of
\* that invocation's message in the message's key order, on the console and in
\* the file; no column occurs twice; the header at the top of either sink is
\* such a line for a JSON-object message that was delivered; and for
\* {timestamp, lat, lon} it is timestamp,rx_callsign,tx_callsign,lat,lon.
C15_HeaderOfFirst ==
    /\ \A w \in Workers :
          /\ pc[w] = "hdr_file" =>
                Last(console) = C15_Line(C15_Columns(msg[w].payload))
          /\ (pc[w] = "row_out" /\ Len(file) = 1) =>
                /\ file[1] = C15_Line(C15_Columns(msg[w].payload))
                /\ console[1] = file[1]
                /\ C15_NoDuplicate(C15_Columns(msg[w].payload))
          /\ (pc[w] = "row_out" /\ Len(file) = 1 /\ msg[w] = MsgPlain) =>
                file[1].text = <<"timestamp", ",", "rx_callsign", ",", "tx_callsign",
                                 ",", "lat", ",", "lon", "\r\n">>
    /\ \A i \in 1..Len(file) :
          file[i].rec = "header" =>
             /\ i = 1
             /\ \E j \in 1..Len(delivered) :
                   /\ IsObject(delivered[j])
                   /\ file[1] = C15_Line(C15_Columns(delivered[j].payload))
    /\ (NumObjects(delivered) > 0 /\ AllIdle) =>
          /\ headers_written
          /\ Len(file) > 0 /\ file[1].rec = "header"
          /\ Len(remaining_keys.keys) + 3 =
                Cardinality({"timestamp", "rx_callsign", "tx_callsign"}
                            \cup {remaining_keys.keys[i] : i \in 1..Len(remaining_keys.keys)})

\* The first message is {timestamp, lat, lon}: its invocation has written the
\* header to both sinks and is about to write the row.
C15_Witness ==
    \E w \in Workers :
       /\ pc[w] = "row_out" /\ Len(file) = 1
       /\ msg[w] = MsgPlain
       /\ file[1].rec = "header"

\* -------------------------------------------------------------- C16
\* C16: rows are flushed one by one: whenever the lock is free, every record
\* written to the file and to the console has been flushed, the header of the
\* same invocation included, and the flushed file equals the flushed console;
\* inside the lock the only records not yet flushed are the holder's own, a
\* header and a row at most.
C16_FlushedPerRow ==
    /\ lock = 0 =>
          /\ fileFlushed = Len(file)
          /\ consoleFlushed = Len(console)
          /\ SubSeq(file, 1, fileFlushed) = SubSeq(console, 1, consoleFlushed)
    /\ lock # 0 =>
          /\ Len(file) - fileFlushed <= 2
          /\ Len(console) - consoleFlushed <= 2
          /\ fileFlushed <= consoleFlushed
          /\ SubSeq(file, 1, fileFlushed) = SubSeq(console, 1, fileFlushed)

\* The first invocation has written header and row, flushed both sinks and
\* released the lock, while the driver is still receiving.
C16_Witness ==
    /\ lock = 0 /\ AllIdle
    /\ mainpc = "loop"
    /\ Len(file) = 2 /\ file[1].rec = "header" /\ file[2].rec = "row"
    /\ fileFlushed = 2 /\ consoleFlushed = 2

\* -------------------------------------------------------------- C17
\* C17: the lock is held only by an invocation inside its critical section, so
\* it is free whenever that invocation has returned, with or without an error;
\* under fair scheduling every invocation that starts returns (each callback
\* context is idle again and again), and the main thread does not stay in any
\* stretch of start other than its wait for the interrupt: again and again it
\* is in that wait or the process has ended.
C17_HeldInside == lock # 0 => pc[lock] \in InLock

C17_LockReleased ==
    /\ []C17_HeldInside
    /\ \A w \in Workers : []<>(pc[w] = "idle")
    /\ []<>(mainpc \in {"loop", "exited", "done"})

\* A write raised inside the critical section and the lock was released: the
\* invocation that waited at line 90 meanwhile has taken it.
C17_Witness ==
    /\ faults = 1 /\ log["error"] >= 1
    /\ \E w \in Workers :
          /\ lock = w /\ pc[w] \in InLock
          /\ \A v \in Workers \ {w} : pc[v] = "idle"
          /\ Len(delivered) = 2

\* -------------------------------------------------------------- C18
\* The step builds the row of invocation w (lines 104-115), which reads
\* remaining_keys.
C18_BuildsRow(w) == row'[w] # row[w] /\ row'[w] # <<>>

\* C18: in every reachable state, headers_written is set only if a header
\* record has been written to the console and to the file and remaining_keys
\* has been assigned; no step resets headers_written; and the step that builds
\* a row finds remaining_keys assigned.
C18_WrittenMeansWritten ==
    /\ [](headers_written =>
            /\ CountRec(console, "header") >= 1
            /\ CountRec(file, "header") >= 1
            /\ remaining_keys.assigned)
    /\ [][~headers_written' => ~headers_written]_vars
    /\ [][\A w \in Workers : C18_BuildsRow(w) => remaining_keys.assigned]_vars

\* A first attempt at the header failed after the console had taken it; a
\* later invocation wrote the header to both sinks, set headers_written and
\* built its row.
C18_Witness ==
    /\ headers_written /\ faults = 1
    /\ CountRec(console, "header") = 2
    /\ CountRec(file, "header") = 1
    /\ \E w \in Workers : pc[w] = "row_out" /\ row[w] # <<>>

\* -------------------------------------------------------------- C19
\* The step is a connect acknowledgement with rc 0 that is not the first one.
C19_Reconnect == subs >= 1 /\ subs' = subs + 1

\* C19: a further connect acknowledgement with rc 0 issues the subscription
\* again and leaves headers_written, remaining_keys, the two sinks, the lock
\* and every invocation as they are; across reconnects each sink holds at most
\* one header, and every row built has one cell per column of the stored
\* header, which is the record at the top of the file.
C19_ReconnectKeepsSchema ==
    /\ [][C19_Reconnect =>
            /\ conn' = "Connected"
            /\ UNCHANGED <<headers_written, remaining_keys, lock, callVars,
                           sinkVars>>]_vars
    /\ [](CountRec(console, "header") <= 1 /\ CountRec(file, "header") <= 1)
    /\ [](\A w \in Workers :
            RowBuilt(w) =>
               /\ Len(row[w]) = 3 + Len(remaining_keys.keys)
               /\ Len(file) >= 1
               /\ file[1] = HeaderRecord(remaining_keys.keys))

\* The connection was lost and acknowledged again after the header and a first
\* row: an invocation has built the next row, with the header still single.
C19_Witness ==
    /\ reconnects = 1 /\ subs = 2
    /\ headers_written
    /\ Len(file) = 2 /\ file[1].rec = "header" /\ file[2].rec = "row"
    /\ \E w \in Workers : pc[w] = "row_out"

====
